---------------------------- MODULE Spec2Model ----------------------------
(***************************************************************************)
(* Model of src/main.py (Posterio chat gateway): the mode router, the      *)
(* context assembler, the JSON repairer extract_and_fix_json and the       *)
(* /chat handler.                                                          *)
(*                                                                         *)
(* Text is a sequence of one-character strings.  A Python value that can   *)
(* appear in a response is a record [t, s, items]:                         *)
(*   t = "str"  : s is the text                                            *)
(*   t = "num"  : s is the number's lexeme                                 *)
(*   t = "lit"  : s is the literal's name (true, false, null, NaN, ...)    *)
(*   t = "arr"  : items is the sequence of element values                  *)
(*   t = "obj"  : items is the sequence of [k, v] entries of a dict, in    *)
(*                insertion order, keys unique                             *)
(*                                                                         *)
(* The completion call is the environment: it answers with a text and a    *)
(* usage count, or raises.  json.loads is modelled over the characters     *)
(* that occur in the inputs; an escape \uXXXX is kept symbolic.            *)
(***************************************************************************)
EXTENDS Naturals, Sequences, FiniteSets, TLC

----------------------------------------------------------------------------
(* Characters *)

LDQ == "<ldq>"       \* U+201C, left curly double quotation mark
RDQ == "<rdq>"       \* U+201D, right curly double quotation mark
BS  == "<bs>"        \* U+0008, the character the escape \b denotes

Digits   == {"0", "1", "2", "3", "4", "5", "6", "7", "8", "9"}
HexChars == Digits \cup {"a", "b", "c", "d", "e", "f", "A", "B", "C", "D", "E", "F"}

\* json.decoder.WHITESPACE: [ \t\n\r]*
JsonWS == {" ", "\t", "\n", "\r"}

\* What \s of a str pattern matches, among the characters of the model.
RegexWS == {" ", "\t", "\n", "\r", "\f"}

\* Characters below U+0020: json rejects them inside a string (strict mode).
ControlChars == {"\t", "\n", "\r", "\f", BS}

----------------------------------------------------------------------------
(* Python values *)

JStr(cs)    == [t |-> "str", s |-> cs, items |-> <<>>]
JNum(cs)    == [t |-> "num", s |-> cs, items |-> <<>>]
JLit(cs)    == [t |-> "lit", s |-> cs, items |-> <<>>]
JArr(vs)    == [t |-> "arr", s |-> <<>>, items |-> vs]
JObj(es)    == [t |-> "obj", s |-> <<>>, items |-> es]

IsDict(v) == v.t = "obj"

\* d[k] = v on a dict's entries: an existing key keeps its place and takes
\* the new value, a new key is appended.
RECURSIVE EntriesSet(_, _, _)
EntriesSet(es, k, v) ==
    IF es = <<>> THEN << [k |-> k, v |-> v] >>
    ELSE IF Head(es).k = k THEN << [k |-> k, v |-> v] >> \o Tail(es)
    ELSE << Head(es) >> \o EntriesSet(Tail(es), k, v)

DictSet(d, k, v) == JObj(EntriesSet(d.items, k, v))

HasKey(d, k) == \E i \in 1..Len(d.items) : d.items[i].k = k

DictGet(d, k) == d.items[CHOOSE i \in 1..Len(d.items) : d.items[i].k = k].v

----------------------------------------------------------------------------
(* json.loads *)

Fail == [ok |-> FALSE, val |-> JLit(<<>>), pos |-> 0]
Ok(v, p) == [ok |-> TRUE, val |-> v, pos |-> p]

\* s[i:i+len(w)] == w
StartsWithAt(s, i, w) ==
    /\ i + Len(w) - 1 <= Len(s)
    /\ SubSeq(s, i, i + Len(w) - 1) = w

\* WHITESPACE.match(s, i).end()
RECURSIVE SkipWS(_, _)
SkipWS(s, i) ==
    IF i <= Len(s) /\ s[i] \in JsonWS THEN SkipWS(s, i + 1) ELSE i

\* The end of the longest run of digits starting at i (i itself when none).
RECURSIVE DigitsEnd(_, _)
DigitsEnd(s, i) ==
    IF i <= Len(s) /\ s[i] \in Digits THEN DigitsEnd(s, i + 1) ELSE i

\* NUMBER_RE = (-?(?:0|[1-9][0-9]*))(\.[0-9]+)?([eE][-+]?[0-9]+)?  matched at i.
\* Each part gives the position after it; 0 stands for "no match".

\* (?:0|[1-9][0-9]*) at j
IntEnd(s, j) ==
    IF j > Len(s) \/ s[j] \notin Digits THEN 0
    ELSE IF s[j] = "0" THEN j + 1
    ELSE DigitsEnd(s, j)

\* (\.[0-9]+)? at p
FracEnd(s, p) ==
    IF p # 0 /\ p <= Len(s) /\ s[p] = "." /\ DigitsEnd(s, p + 1) > p + 1
    THEN DigitsEnd(s, p + 1) ELSE p

\* [-+]?[0-9]+ at q, after the e at p
ExpDigitsEnd(s, p, q) == IF DigitsEnd(s, q) > q THEN DigitsEnd(s, q) ELSE p

\* ([eE][-+]?[0-9]+)? at p
ExpEnd(s, p) ==
    IF p # 0 /\ p <= Len(s) /\ s[p] \in {"e", "E"}
    THEN ExpDigitsEnd(s, p, IF p + 1 <= Len(s) /\ s[p + 1] \in {"+", "-"}
                            THEN p + 2 ELSE p + 1)
    ELSE p

NumberEnd(s, i) ==
    ExpEnd(s, FracEnd(s, IntEnd(s, IF i <= Len(s) /\ s[i] = "-" THEN i + 1 ELSE i)))

\* The character a one-letter escape denotes.
Unescape(c) ==
    CASE c = "b" -> BS
      [] c = "f" -> "\f"
      [] c = "n" -> "\n"
      [] c = "r" -> "\r"
      [] c = "t" -> "\t"
      [] OTHER   -> c

\* scanstring(s, i): i is the position after the opening quote, acc the text
\* decoded so far.  A \uXXXX escape is kept as one symbolic character.
RECURSIVE ScanString(_, _, _)
ScanString(s, i, acc) ==
    IF i > Len(s) THEN Fail
    ELSE IF s[i] = "\"" THEN Ok(JStr(acc), i + 1)
    ELSE IF s[i] \in ControlChars THEN Fail
    ELSE IF s[i] # "\\" THEN ScanString(s, i + 1, Append(acc, s[i]))
    ELSE IF i + 1 > Len(s) THEN Fail
    ELSE IF s[i + 1] \in {"\"", "\\", "/", "b", "f", "n", "r", "t"}
         THEN ScanString(s, i + 2, Append(acc, Unescape(s[i + 1])))
    ELSE IF /\ s[i + 1] = "u"
            /\ i + 5 <= Len(s)
            /\ \A j \in (i + 2)..(i + 5) : s[j] \in HexChars
         THEN ScanString(s, i + 6,
                 Append(acc, "\\u" \o s[i + 2] \o s[i + 3] \o s[i + 4] \o s[i + 5]))
    ELSE Fail

Literals ==
    << <<"n", "u", "l", "l">>, <<"t", "r", "u", "e">>, <<"f", "a", "l", "s", "e">>,
       <<"N", "a", "N">>, <<"I", "n", "f", "i", "n", "i", "t", "y">>,
       <<"-", "I", "n", "f", "i", "n", "i", "t", "y">> >>

RECURSIVE ScanOnce(_, _)
RECURSIVE JSONObject(_, _, _)
RECURSIVE ObjectAfterKey(_, _, _)
RECURSIVE ObjectAfterColon(_, _, _, _)
RECURSIVE ObjectAfterValue(_, _, _, _)
RECURSIVE ObjectNext(_, _, _)
RECURSIVE ObjectNextKey(_, _, _)
RECURSIVE JSONArray(_, _, _)
RECURSIVE ArrayAfterValue(_, _, _)
RECURSIVE ArrayNext(_, _, _)

\* The literal among Literals[lo..hi] that starts at position i.
LiteralAt(s, i, lo, hi) ==
    LET n == CHOOSE n \in lo..hi : StartsWithAt(s, i, Literals[n])
    IN  Ok(JLit(Literals[n]), i + Len(Literals[n]))

\* The number whose match ends before position end.
NumberAt(s, i, end) == Ok(JNum(SubSeq(s, i, end - 1)), end)

\* After "{" and whitespace, at position j.
ObjectStart(s, j) ==
    IF j > Len(s) THEN Fail
    ELSE IF s[j] = "}" THEN Ok(JObj(<<>>), j + 1)
    ELSE IF s[j] = "\"" THEN JSONObject(s, j, <<>>)
    ELSE Fail

\* After "[" and whitespace, at position j.
ArrayStart(s, j) ==
    IF j > Len(s) THEN Fail
    ELSE IF s[j] = "]" THEN Ok(JArr(<<>>), j + 1)
    ELSE JSONArray(s, j, <<>>)

\* scan_once(s, i): the value that starts at position i.
ScanOnce(s, i) ==
    IF i > Len(s) THEN Fail
    ELSE IF s[i] = "\"" THEN ScanString(s, i + 1, <<>>)
    ELSE IF s[i] = "{" THEN ObjectStart(s, SkipWS(s, i + 1))
    ELSE IF s[i] = "[" THEN ArrayStart(s, SkipWS(s, i + 1))
    ELSE IF \E n \in 1..3 : StartsWithAt(s, i, Literals[n]) THEN LiteralAt(s, i, 1, 3)
    ELSE IF NumberEnd(s, i) # 0 THEN NumberAt(s, i, NumberEnd(s, i))
    ELSE IF \E n \in 4..6 : StartsWithAt(s, i, Literals[n]) THEN LiteralAt(s, i, 4, 6)
    ELSE Fail

\* JSONObject's loop: i is at the opening quote of the next key, acc the
\* entries so far.
JSONObject(s, i, acc) == ObjectAfterKey(s, acc, ScanString(s, i + 1, <<>>))

\* key is the scanned key: skip whitespace, expect ":".
ObjectAfterKey(s, acc, key) ==
    IF ~key.ok THEN Fail ELSE ObjectAfterColon(s, acc, key, SkipWS(s, key.pos))

\* c is the position where ":" must stand: skip whitespace, scan the value.
ObjectAfterColon(s, acc, key, c) ==
    IF c > Len(s) \/ s[c] # ":" THEN Fail
    ELSE ObjectAfterValue(s, acc, key, ScanOnce(s, SkipWS(s, c + 1)))

\* val is the scanned value: store it under the key (a repeated key takes the
\* later value, as dict assignment does), skip whitespace.
ObjectAfterValue(s, acc, key, val) ==
    IF ~val.ok THEN Fail
    ELSE ObjectNext(s, EntriesSet(acc, key.val.s, val.val), SkipWS(s, val.pos))

\* e is the position after the value: "}" ends the object, "," continues it.
ObjectNext(s, acc, e) ==
    IF e > Len(s) THEN Fail
    ELSE IF s[e] = "}" THEN Ok(JObj(acc), e + 1)
    ELSE IF s[e] # "," THEN Fail
    ELSE ObjectNextKey(s, acc, SkipWS(s, e + 1))

\* n is the position after "," and whitespace: a key must open there.
ObjectNextKey(s, acc, n) ==
    IF n > Len(s) \/ s[n] # "\"" THEN Fail ELSE JSONObject(s, n, acc)

\* JSONArray's loop: i is at the start of the next element.
JSONArray(s, i, acc) == ArrayAfterValue(s, acc, ScanOnce(s, i))

ArrayAfterValue(s, acc, val) ==
    IF ~val.ok THEN Fail
    ELSE ArrayNext(s, Append(acc, val.val), SkipWS(s, val.pos))

\* e is the position after the element: "]" ends the array, "," continues it.
ArrayNext(s, acc, e) ==
    IF e > Len(s) THEN Fail
    ELSE IF s[e] = "]" THEN Ok(JArr(acc), e + 1)
    ELSE IF s[e] # "," THEN Fail
    ELSE JSONArray(s, SkipWS(s, e + 1), acc)

\* The end of json.loads: only whitespace may follow the value r.
NoExtraData(s, r) == IF r.ok /\ SkipWS(s, r.pos) = Len(s) + 1 THEN r ELSE Fail

\* json.loads(s): ok is FALSE where json.loads raises JSONDecodeError.
JsonLoads(s) == NoExtraData(s, ScanOnce(s, SkipWS(s, 1)))

----------------------------------------------------------------------------
(* extract_and_fix_json *)

NoJsonDetected ==
    <<"N", "o", " ", "J", "S", "O", "N", " ", "d", "e", "t", "e", "c", "t", "e", "d">>
JsonParseFailed ==
    <<"J", "S", "O", "N", " ", "p", "a", "r", "s", "e", " ", "f", "a", "i", "l", "e", "d">>
K_error      == <<"e", "r", "r", "o", "r">>
K_raw_output == <<"r", "a", "w", "_", "o", "u", "t", "p", "u", "t">>

\* {"error": msg, "raw_output": raw}
ErrorPayload(msg, rawText) ==
    JObj(<< [k |-> K_error, v |-> JStr(msg)], [k |-> K_raw_output, v |-> JStr(rawText)] >>)

Positions(s, c) == {i \in 1..Len(s) : s[i] = c}

Min(S) == CHOOSE x \in S : \A y \in S : x <= y
Max(S) == CHOOSE x \in S : \A y \in S : y <= x

\* re.search(r"\{.*\}", raw, re.DOTALL): the match runs from the first "{"
\* that has a "}" after it to the last "}"; found is FALSE when m is None.
SearchBraces(s) ==
    LET opens  == Positions(s, "{")
        closes == Positions(s, "}")
    IN  IF opens # {} /\ closes # {} /\ Min(opens) < Max(closes)
        THEN [found |-> TRUE, text |-> SubSeq(s, Min(opens), Max(closes))]
        ELSE [found |-> FALSE, text |-> <<>>]

\* text.replace(LDQ, '"').replace(RDQ, '"')
ReplaceCurlyQuotes(s) ==
    [i \in 1..Len(s) |-> IF s[i] \in {LDQ, RDQ} THEN "\"" ELSE s[i]]

\* The end of the \s* run that starts at i.
RECURSIVE SkipRegexWS(_, _)
SkipRegexWS(s, i) ==
    IF i <= Len(s) /\ s[i] \in RegexWS THEN SkipRegexWS(s, i + 1) ELSE i

\* re.sub(",\s*" + closer, closer, s), scanning from position i: each comma
\* whose following whitespace run ends at closer is dropped with that run.
RECURSIVE SubTrailingComma(_, _, _)
SubTrailingComma(s, i, closer) ==
    IF i > Len(s) THEN <<>>
    ELSE LET j == SkipRegexWS(s, i + 1)
         IN  IF s[i] = "," /\ j <= Len(s) /\ s[j] = closer
             THEN <<closer>> \o SubTrailingComma(s, j + 1, closer)
             ELSE <<s[i]>> \o SubTrailingComma(s, i + 1, closer)

\* Faulty variant: line 88 is missing, commas before "]" stay.
Normalize_SkipsBrackets(text) ==
    SubTrailingComma(ReplaceCurlyQuotes(text), 1, "}")

\* Lines 86-88: the text handed to the second json.loads.
Normalize(text) ==
    SubTrailingComma(SubTrailingComma(ReplaceCurlyQuotes(text), 1, "}"), 1, "]")

\* Lines 89-92: retry is the second json.loads.
RetryParse(rawText, retry) ==
    IF retry.ok THEN retry.val ELSE ErrorPayload(JsonParseFailed, rawText)

\* Faulty variant: the error payload reports the extracted span.
ExceptDecodeError_ReportsSpan(rawText, m) ==
    IF ~m.found THEN ErrorPayload(NoJsonDetected, rawText)
    ELSE RetryParse(m.text, JsonLoads(Normalize(m.text)))

\* Lines 82-92, the except branch: m is the regex match.
ExceptDecodeError(rawText, m) ==
    IF ~m.found THEN ErrorPayload(NoJsonDetected, rawText)
    ELSE RetryParse(rawText, JsonLoads(Normalize(m.text)))

\* Faulty variant: the span is searched and normalized without trying
\* json.loads(raw) first.
TryStrict_SkipsStrict(rawText, strict) ==
    ExceptDecodeError(rawText, SearchBraces(rawText))

\* Lines 79-81: strict is json.loads(raw).
TryStrict(rawText, strict) ==
    IF strict.ok THEN strict.val ELSE ExceptDecodeError(rawText, SearchBraces(rawText))

extract_and_fix_json(rawText) == TryStrict(rawText, JsonLoads(rawText))

----------------------------------------------------------------------------
(* The /chat handler *)

K_reply_text  == <<"r", "e", "p", "l", "y", "_", "t", "e", "x", "t">>
K_meta        == <<"m", "e", "t", "a">>
K_tokens_used == <<"t", "o", "k", "e", "n", "s", "_", "u", "s", "e", "d">>
K_model       == <<"m", "o", "d", "e", "l">>
ModelId       == <<"g", "p", "t", "-", "4", "o", "-", "m", "i", "n", "i">>
ErrorModel    == <<"e", "r", "r", "o", "r">>
ErrorPrefix   == <<"E", "r", "r", "o", "r", ":", " ">>
Keyword       == <<"t", "e", "m", "p", "l", "a", "t", "e">>
Zero          == <<"0">>

\* The texts load_prompt returns for the two prompt files (their contents are
\* not part of the handler; the files are taken to differ).
ConversationalPromptText == <<"<prompts/system_prompt_conversational.txt>">>
TemplatePromptText       == <<"<prompts/system_prompt_template.txt>">>
ApiKeyText               == <<"<OPENAI_API_KEY>">>

\* req.messages[-5:]
HistoryWindow == 5

UpperLetters ==
    <<"A", "B", "C", "D", "E", "F", "G", "H", "I", "J", "K", "L", "M",
      "N", "O", "P", "Q", "R", "S", "T", "U", "V", "W", "X", "Y", "Z">>
LowerLetters ==
    <<"a", "b", "c", "d", "e", "f", "g", "h", "i", "j", "k", "l", "m",
      "n", "o", "p", "q", "r", "s", "t", "u", "v", "w", "x", "y", "z">>

LowerChar(c) ==
    IF \E n \in 1..26 : UpperLetters[n] = c
    THEN LowerLetters[CHOOSE n \in 1..26 : UpperLetters[n] = c]
    ELSE c

\* str.lower()
Lower(s) == [i \in 1..Len(s) |-> LowerChar(s[i])]

\* w in s
Contains(s, w) ==
    \E i \in 1..(Len(s) + 1) :
        i + Len(w) - 1 <= Len(s) /\ SubSeq(s, i, i + Len(w) - 1) = w

\* bool(x) of an Optional[bool] field ("True", "False" or "None").
Truthy(x) == x = "True"

\* Faulty variant: the message is searched without .lower().
WantsTemplate_CaseSensitive(r) ==
    Truthy(r.force_template) \/ Contains(r.message, Keyword)

\* req.force_template or "template" in req.message.lower()   (lines 103, 119)
WantsTemplate(r) == Truthy(r.force_template) \/ Contains(Lower(r.message), Keyword)

\* Faulty variant: req.messages[:5], the first five messages.
History_FirstFive(r) ==
    SubSeq(r.messages, 1,
           IF Len(r.messages) > HistoryWindow THEN HistoryWindow ELSE Len(r.messages))

\* req.messages[-5:] if req.messages else []
History(r) ==
    LET n == Len(r.messages)
    IN  IF n = 0 THEN <<>>
        ELSE SubSeq(r.messages, IF n > HistoryWindow THEN n - HistoryWindow + 1 ELSE 1, n)

\* Lines 103-107: the list passed as messages= to the completion call.
Conversation(r, conversationalPrompt, templatePrompt) ==
    LET system_prompt == IF WantsTemplate(r) THEN templatePrompt ELSE conversationalPrompt
        history == History(r)
    IN  << [role |-> "system", content |-> system_prompt] >>
        \o [i \in 1..Len(history) |->
               [role |-> history[i].role, content |-> history[i].content]]
        \o << [role |-> "user", content |-> r.message] >>

\* {"tokens_used": n, "model": m}
Meta(n, m) ==
    JObj(<< [k |-> K_tokens_used, v |-> JNum(n)], [k |-> K_model, v |-> JStr(m)] >>)

NoAttr == <<"<no attribute>">>

\* getattr(response.usage, "total_tokens", 0)
TokensUsed(usage) == IF usage = NoAttr THEN Zero ELSE usage

ItemAssignment ==
    <<" ", "o", "b", "j", "e", "c", "t", " ", "d", "o", "e", "s", " ", "n", "o", "t", " ",
      "s", "u", "p", "p", "o", "r", "t", " ", "i", "t", "e", "m", " ",
      "a", "s", "s", "i", "g", "n", "m", "e", "n", "t">>
ListIndices ==
    <<"l", "i", "s", "t", " ", "i", "n", "d", "i", "c", "e", "s", " ", "m", "u", "s", "t", " ",
      "b", "e", " ", "i", "n", "t", "e", "g", "e", "r", "s", " ", "o", "r", " ",
      "s", "l", "i", "c", "e", "s", ",", " ", "n", "o", "t", " ", "s", "t", "r">>

\* type(v).__name__ of a value json.loads returns that is not a dict or list.
TypeName(v) ==
    CASE v.t = "str" -> <<"s", "t", "r">>
      [] v.t = "num" /\ \A i \in 1..Len(v.s) : v.s[i] \notin {".", "e", "E"}
                     -> <<"i", "n", "t">>
      [] v.t = "num" -> <<"f", "l", "o", "a", "t">>
      [] v.t = "lit" /\ v.s = Literals[1] -> <<"N", "o", "n", "e", "T", "y", "p", "e">>
      [] v.t = "lit" /\ v.s \in {Literals[2], Literals[3]} -> <<"b", "o", "o", "l">>
      [] OTHER -> <<"f", "l", "o", "a", "t">>

\* str(e) of the TypeError that output["meta"] = ... raises when output is
\* not a dict.
ItemAssignmentError(v) ==
    IF v.t = "arr" THEN ListIndices
    ELSE <<"'">> \o TypeName(v) \o <<"'">> \o ItemAssignment

\* Line 127: what the except clause returns for exception text e.
ErrorResponse(e) ==
    JObj(<< [k |-> K_reply_text, v |-> JStr(ErrorPrefix \o e)],
            [k |-> K_meta, v |-> Meta(Zero, ErrorModel)] >>)

\* The classes a completion call's failure may have, and the TypeError of
\* line 124; all derive from Exception.
BoundaryErrors == {"APIConnectionError", "AuthenticationError", "RateLimitError"}
ExceptionSubclasses == BoundaryErrors \cup {"TypeError"}

\* Faulty variant: except openai.OpenAIError as e.
Catches_OnlyBoundaryErrors(kind) == kind \in BoundaryErrors

\* except Exception as e   (line 126)
Catches(kind) == kind \in ExceptionSubclasses

\* Python's None, where a variable holds no value yet.
None == JLit(<<"N", "o", "n", "e">>)

\* Lines 124-125: output["meta"] = {...}; return output.  The result is the
\* value returned, or the exception raised when output is not a dict.
SetMeta(output, tokens_used) ==
    IF IsDict(output)
    THEN [raised |-> FALSE, kind |-> "", text |-> <<>>,
          val |-> DictSet(output, K_meta, Meta(tokens_used, ModelId))]
    ELSE [raised |-> TRUE, kind |-> "TypeError", text |-> ItemAssignmentError(output),
          val |-> output]

\* Lines 116-125, the try body after the completion call has returned text
\* raw_output with usage count usage.
TryBody(r, raw_output, usage) ==
    SetMeta(IF WantsTemplate(r) THEN extract_and_fix_json(raw_output)
            ELSE JObj(<< [k |-> K_reply_text, v |-> JStr(raw_output)] >>),
            TokensUsed(usage))

NoRequest == [session_id |-> <<>>, messages |-> <<>>, message |-> <<>>, force_template |-> "None"]
NoCompletion == [ok |-> FALSE, text |-> <<>>, usage |-> NoAttr, kind |-> "", exc |-> <<>>]

VARIABLES
    SYSTEM_PROMPT_CONVERSATIONAL,  \* module global, line 18
    SYSTEM_PROMPT_TEMPLATE,        \* module global, line 19
    client,                        \* module global, line 12 (its credential)
    req,            \* per request: the ChatRequest being handled
    pc,             \* per request: "idle", "awaiting" (inside create), "done", "fault"
    conversation,   \* per request: the messages passed to the completion call
    calls,          \* per request: completion calls issued so far
    completion,     \* per request: what the completion call answered
    response,       \* per request: the value the handler returned
    rawText,        \* extract_and_fix_json: its argument
    repaired,       \* extract_and_fix_json: its result
    rstage          \* "start" before the call, "done" after it

globals == <<SYSTEM_PROMPT_CONVERSATIONAL, SYSTEM_PROMPT_TEMPLATE, client>>
chatVars == <<req, pc, conversation, calls, completion, response>>
repairVars == <<rawText, repaired, rstage>>
vars == <<globals, chatVars, repairVars>>

\* Lines 11-19: the module globals after import.
InitGlobals ==
    /\ SYSTEM_PROMPT_CONVERSATIONAL = ConversationalPromptText
    /\ SYSTEM_PROMPT_TEMPLATE = TemplatePromptText
    /\ client = ApiKeyText

\* n requests not yet received.
InitChat(n) ==
    /\ req = [i \in 1..n |-> NoRequest]
    /\ pc = [i \in 1..n |-> "idle"]
    /\ conversation = [i \in 1..n |-> <<>>]
    /\ calls = [i \in 1..n |-> 0]
    /\ completion = [i \in 1..n |-> NoCompletion]
    /\ response = [i \in 1..n |-> None]

InitRepair(inputs) ==
    /\ rawText \in inputs
    /\ repaired = None
    /\ rstage = "start"

\* Lines 102-110: request r arrives as request i; the context is assembled
\* and the completion call is issued.
chatBegin(i, r) ==
    /\ pc[i] = "idle"
    /\ req' = [req EXCEPT ![i] = r]
    /\ conversation' = [conversation EXCEPT ![i] =
           Conversation(r, SYSTEM_PROMPT_CONVERSATIONAL, SYSTEM_PROMPT_TEMPLATE)]
    /\ calls' = [calls EXCEPT ![i] = @ + 1]
    /\ pc' = [pc EXCEPT ![i] = "awaiting"]
    /\ UNCHANGED <<globals, completion, response, repairVars>>

\* Lines 109, 126-127: how the try statement ends, given what its body did:
\* the handler returns (pc "done") or the exception escapes it (pc "fault").
TryExcept(body) ==
    IF ~body.raised THEN [pc |-> "done", response |-> body.val]
    ELSE IF Catches(body.kind) THEN [pc |-> "done", response |-> ErrorResponse(body.text)]
    ELSE [pc |-> "fault", response |-> None]

\* Faulty variant: the handler keeps the request in a module global, so the
\* response is composed from the request stored first.
chatReturn_FirstRequest(i, raw_output, usage) ==
    /\ pc[i] = "awaiting"
    /\ completion' = [completion EXCEPT ![i] =
           [ok |-> TRUE, text |-> raw_output, usage |-> usage, kind |-> "", exc |-> <<>>]]
    /\ LET end == TryExcept(TryBody(req[1], raw_output, usage))
       IN  /\ response' = [response EXCEPT ![i] = end.response]
           /\ pc' = [pc EXCEPT ![i] = end.pc]
    /\ UNCHANGED <<globals, req, conversation, calls, repairVars>>

\* Lines 116-127: the completion call of request i returns text raw_output
\* with usage count usage; the handler composes and returns the response.
chatReturn(i, raw_output, usage) ==
    /\ pc[i] = "awaiting"
    /\ completion' = [completion EXCEPT ![i] =
           [ok |-> TRUE, text |-> raw_output, usage |-> usage, kind |-> "", exc |-> <<>>]]
    /\ LET end == TryExcept(TryBody(req[i], raw_output, usage))
       IN  /\ response' = [response EXCEPT ![i] = end.response]
           /\ pc' = [pc EXCEPT ![i] = end.pc]
    /\ UNCHANGED <<globals, req, conversation, calls, repairVars>>

\* Lines 110, 126-127: the completion call of request i raises an exception
\* of class kind with text e.
chatRaise(i, kind, e) ==
    /\ pc[i] = "awaiting"
    /\ completion' = [completion EXCEPT ![i] =
           [ok |-> FALSE, text |-> <<>>, usage |-> NoAttr, kind |-> kind, exc |-> e]]
    /\ LET end == TryExcept([raised |-> TRUE, kind |-> kind, text |-> e, val |-> None])
       IN  /\ response' = [response EXCEPT ![i] = end.response]
           /\ pc' = [pc EXCEPT ![i] = end.pc]
    /\ UNCHANGED <<globals, req, conversation, calls, repairVars>>

\* Lines 78-92 applied to rawText.
Repair ==
    /\ rstage = "start"
    /\ repaired' = extract_and_fix_json(rawText)
    /\ rstage' = "done"
    /\ UNCHANGED <<globals, chatVars, rawText>>

----------------------------------------------------------------------------
(* Inputs *)

Example ==
    <<"H", "e", "r", "e", " ", "y", "o", "u", " ", "g", "o", ":", " ", "{", "\"", "g",
    "o", "a", "l", "\"", ":", " ", "\"", "R", "u", "n", " ", "5", "k", "\"", ",", " ",
    "\"", "t", "e", "m", "p", "l", "a", "t", "e", "s", "\"", ":", " ", "[", "]", ",",
    "}", " ", "t", "h", "a", "n", "k", "s", "!">>
S_Object ==
    <<"{", "\"", "a", "\"", ":", "1", "}">>
S_Meta ==
    <<"{", "\"", "m", "e", "t", "a", "\"", ":", "{", "\"", "m", "o", "d", "e", "l",
    "\"", ":", "\"", "x", "\"", "}", ",", "\"", "a", "\"", ":", "1", "}">>
S_ReplyText ==
    <<"{", "\"", "r", "e", "p", "l", "y", "_", "t", "e", "x", "t", "\"", ":", "\"", "x",
    "\"", "}">>
S_Duplicate ==
    <<"{", "\"", "a", "\"", ":", "1", ",", "\"", "a", "\"", ":", "2", "}">>
S_CloserInString ==
    <<"{", "\"", "a", "\"", ":", "\"", ",", "}", "\"", "}">>
S_SpaceInString ==
    <<"{", "\"", "a", "\"", ":", "\"", ",", " ", "}", "\"", "}">>
S_CurlyInString ==
    <<"{", "\"", "a", "\"", ":", "\"", LDQ, "\"", "}">>
S_CurlyQuotes ==
    <<"{", LDQ, "a", RDQ, ":", " ", "[", "1", ",", " ", "]", ",", " ", "}">>
S_TrailingCommas ==
    <<"{", "\"", "a", "\"", ":", "[", "1", ",", "2", ",", " ", "]", ",", "\n", "}">>
S_FormFeed ==
    <<"{", "\"", "a", "\"", ":", "1", ",", "\f", "}">>
S_DoubleComma ==
    <<"{", "\"", "a", "\"", ":", "1", ",", ",", "}">>
S_MissingColon ==
    <<"{", "\"", "a", "\"", " ", "1", "}">>
S_Unclosed ==
    <<"{", "\"", "a", "\"", ":", "1">>
S_ListInString ==
    <<"[", "\"", ",", "]", "\"", "]">>
S_List ==
    <<"[", "1", ",", "2", "]">>
S_String ==
    <<"\"", "s", "\"">>
S_Float ==
    <<"1", ".", "5">>
S_Null ==
    <<"n", "u", "l", "l">>
S_True ==
    <<"t", "r", "u", "e">>
S_NaN ==
    <<"N", "a", "N">>
S_Prose ==
    <<"S", "u", "r", "e", "!">>
RawSamples ==
    {Example, S_Object, S_Meta, S_ReplyText, S_Duplicate, S_CloserInString,
     S_SpaceInString, S_CurlyInString, S_CurlyQuotes, S_TrailingCommas,
     S_FormFeed, S_DoubleComma, S_MissingColon, S_Unclosed, S_ListInString,
     S_List, S_String, S_Float, S_Null, S_True, S_NaN, S_Prose}

\* Bounds of the input sets.
MaxRawLen == 3      \* longest enumerated raw text
MaxHist   == 7      \* longest enumerated history
MaxReqs   == 2      \* requests in flight together

RawAlphabet == {"{", "}", "[", "]", ",", ":", "\"", LDQ, " ", "1"}

\* Every text over alphabet of length at most n.
RECURSIVE Texts(_, _)
Texts(alphabet, n) ==
    IF n = 0 THEN {<<>>}
    ELSE LET shorter == Texts(alphabet, n - 1)
         IN  shorter \cup {Append(s, c) : s \in shorter, c \in alphabet}

Prefixes == {<<>>, <<"o", "k", ":", " ">>, <<"[">>}
Suffixes == {<<>>, <<" ", "o", "k">>, <<"]">>}

\* The raw texts extract_and_fix_json is applied to: a sample or a short
\* enumerated text, bare or wrapped in a prefix and a suffix.
RepairInputs ==
    {p \o b \o s : p \in Prefixes, b \in RawSamples \cup Texts(RawAlphabet, MaxRawLen),
                   s \in Suffixes}

\* What a completion call may answer.
ChatRaws   == RawSamples \cup Texts(RawAlphabet, 1)
Usages     == {<<"4", "2">>, NoAttr}
ErrorTexts == {<<"C", "o", "n", "n", "e", "c", "t", "i", "o", "n", " ",
                 "e", "r", "r", "o", "r", ".">>, <<>>}

M_user      == [role |-> "user", content |-> <<"a">>]
M_assistant == [role |-> "assistant", content |-> <<"b">>]
M_system    == [role |-> "system", content |-> <<"c">>]

Letter(x) == [role |-> "user", content |-> <<x>>]

\* The history [a, b, c, d, e, f, g].
SevenMessages ==
    <<Letter("a"), Letter("b"), Letter("c"), Letter("d"), Letter("e"), Letter("f"),
      Letter("g")>>

PlainMessage    == <<"h", "i">>
TemplateMessage == <<"a", " ", "T", "e", "m", "p", "l", "a", "t", "e">>

Request(history, message, force) ==
    [session_id |-> <<"s", "1">>, messages |-> history, message |-> message,
     force_template |-> force]

ForceValues == {"True", "False", "None"}

ChatRequests ==
    {Request(h, m, f) : h \in {<<>>, <<M_user, M_assistant>>},
                        m \in {PlainMessage, TemplateMessage}, f \in ForceValues}

\* Every way of writing word in upper and lower case.
RECURSIVE CaseVariants(_)
CaseVariants(word) ==
    IF word = <<>> THEN {<<>>}
    ELSE LET c == Head(word)
             u == IF \E n \in 1..26 : LowerLetters[n] = c
                  THEN UpperLetters[CHOOSE n \in 1..26 : LowerLetters[n] = c] ELSE c
         IN  {<<x>> \o rest : x \in {c, u}, rest \in CaseVariants(Tail(word))}

NearMisses ==
    {<<>>, <<"t", "e", "m", "p", "l", "a", "t">>, <<"e", "m", "p", "l", "a", "t", "e">>,
     <<"t", "e", "m", "p", " ", "l", "a", "t", "e">>,
     <<"t", "e", "m", "p", "1", "a", "t", "e">>,
     <<"T", "E", "M", "P", "L", "A", "T">>,
     <<"e", "t", "a", "l", "p", "m", "e", "t">>}

ModeMessages ==
    {p \o w \o s : p \in {<<>>, <<"m", "y", " ">>, <<"t", "e", "m">>},
                   w \in CaseVariants(Keyword) \cup NearMisses,
                   s \in {<<>>, <<"s", "!">>}}

ModeRequests == {Request(<<>>, m, f) : m \in ModeMessages, f \in ForceValues}
ModeRaws     == {S_Object, S_List, S_Prose}

RECURSIVE Histories(_, _)
Histories(messages, n) ==
    IF n = 0 THEN {<<>>}
    ELSE LET shorter == Histories(messages, n - 1)
         IN  shorter \cup {Append(h, m) : h \in shorter, m \in messages}

AssembleRequests ==
    {Request(h, m, "False") :
        h \in Histories({M_user, M_assistant}, MaxHist)
              \cup {SevenMessages, <<M_system, M_user>>},
        m \in {PlainMessage, TemplateMessage}}

ConcRequests == {Request(<<>>, PlainMessage, "False"), Request(<<M_user>>, PlainMessage, "True")}
ConcRaws     == {S_Object, S_List, S_Prose}

----------------------------------------------------------------------------
(* Specifications *)

ChatNext(n, requests, raws, usages) ==
    \E i \in 1..n :
        \/ pc[i] = "idle" /\ \E r \in requests : chatBegin(i, r)
        \/ pc[i] = "awaiting" /\
               \E raw_output \in raws, usage \in usages : chatReturn(i, raw_output, usage)
        \/ pc[i] = "awaiting" /\
               \E kind \in BoundaryErrors, e \in ErrorTexts : chatRaise(i, kind, e)

\* One request, every completion outcome.
Init == InitGlobals /\ InitChat(1) /\ InitRepair({<<>>})
Next == ChatNext(1, ChatRequests, ChatRaws, Usages)
Spec == Init /\ [][Next]_vars

\* One request, every spelling of the message.
NextMode == ChatNext(1, ModeRequests, ModeRaws, {NoAttr})
SpecMode == Init /\ [][NextMode]_vars

\* One request, every history.
NextAssemble == ChatNext(1, AssembleRequests, ModeRaws, {NoAttr})
SpecAssemble == Init /\ [][NextAssemble]_vars

\* MaxReqs requests in flight, their steps interleaved.
InitConc == InitGlobals /\ InitChat(MaxReqs) /\ InitRepair({<<>>})
NextConc == ChatNext(MaxReqs, ConcRequests, ConcRaws, {<<"4", "2">>})
SpecConc == InitConc /\ [][NextConc]_vars

\* extract_and_fix_json on every raw text.
InitRepairOnly == InitGlobals /\ InitChat(1) /\ InitRepair(RepairInputs)
SpecRepair == InitRepairOnly /\ [][Repair]_vars

----------------------------------------------------------------------------
(* Vocabulary of the claims *)

Done(i) == pc[i] = "done"

\* The request's mode, as the specification words it: the flag is set, or the
\* word occurs in the message with each letter in either case.
SameLetter(c, d) ==
    c = d \/ \E n \in 1..26 : {c, d} = {UpperLetters[n], LowerLetters[n]}

Structured(r) ==
    \/ r.force_template = "True"
    \/ \E p \in 0..Len(r.message) :
          /\ p + Len(Keyword) <= Len(r.message)
          /\ \A k \in 1..Len(Keyword) : SameLetter(r.message[p + k], Keyword[k])

\* Some "{" of s stands before some "}" of s.
SpanExists(s) == \E a, b \in 1..Len(s) : a < b /\ s[a] = "{" /\ s[b] = "}"

\* From the first "{" of s to the last "}" of s.
WidestSpan(s) ==
    SubSeq(s, CHOOSE a \in 1..Len(s) : s[a] = "{" /\ \A x \in 1..(a - 1) : s[x] # "{",
              CHOOSE b \in 1..Len(s) : s[b] = "}" /\ \A x \in (b + 1)..Len(s) : s[x] # "}")

Straightened(s) == [i \in 1..Len(s) |-> IF s[i] = LDQ \/ s[i] = RDQ THEN "\"" ELSE s[i]]

\* The comma at p is followed by optional whitespace and then "}" or "]",
\* which stands at q.
TrailingComma(s, p, q) ==
    /\ s[p] = ","
    /\ p < q /\ q <= Len(s)
    /\ s[q] \in {"}", "]"}
    /\ \A x \in (p + 1)..(q - 1) : s[x] \in RegexWS

\* s without the characters at the positions in dropped.
RECURSIVE Without(_, _, _)
Without(s, i, dropped) ==
    IF i > Len(s) THEN <<>>
    ELSE (IF i \in dropped THEN <<>> ELSE <<s[i]>>) \o Without(s, i + 1, dropped)

\* Every trailing comma deleted, the whitespace after it kept.
CommasDeleted(s) ==
    Without(s, 1, {p \in 1..Len(s) : \E q \in 1..Len(s) : TrailingComma(s, p, q)})

\* Every trailing comma deleted together with the whitespace after it.
CommasAndSpaceDeleted(s) ==
    Without(s, 1, {x \in 1..Len(s) :
                     \E p, q \in 1..Len(s) : TrailingComma(s, p, q) /\ p <= x /\ x < q})

WellFormed(v) ==
    /\ IsDict(v)
    /\ HasKey(v, K_meta)
    /\ IsDict(DictGet(v, K_meta))
    /\ HasKey(DictGet(v, K_meta), K_tokens_used)
    /\ HasKey(DictGet(v, K_meta), K_model)

----------------------------------------------------------------------------
(* Claims *)

\* C1: whenever the completion call succeeded, the returned response carries
\* meta = {tokens_used: the count the completion reported, model: "gpt-4o-mini"}.
C1_MetaOnSuccess ==
    \A i \in DOMAIN pc :
        (Done(i) /\ completion[i].ok) =>
            /\ IsDict(response[i])
            /\ HasKey(response[i], K_meta)
            /\ DictGet(response[i], K_meta)
                  = Meta(TokensUsed(completion[i].usage), ModelId)

\* C2: no exception escapes the handler; every returned response is a dict
\* with meta.tokens_used and meta.model; after a failed completion call the
\* response is {reply_text: "Error: " + the exception's text,
\* meta: {tokens_used: 0, model: "error"}}.
C2_NeverRaises ==
    \A i \in DOMAIN pc :
        /\ pc[i] # "fault"
        /\ Done(i) => WellFormed(response[i])
        /\ (Done(i) /\ ~completion[i].ok) =>
              response[i] =
                  JObj(<< [k |-> K_reply_text, v |-> JStr(ErrorPrefix \o completion[i].exc)],
                          [k |-> K_meta,
                           v |-> JObj(<< [k |-> K_tokens_used, v |-> JNum(<<"0">>)],
                                         [k |-> K_model, v |-> JStr(ErrorModel)] >>)] >>)

C2_Witness ==
    \E i \in DOMAIN pc :
        /\ Done(i) /\ ~completion[i].ok /\ completion[i].exc # <<>>
        /\ DictGet(response[i], K_reply_text) = JStr(ErrorPrefix \o completion[i].exc)

\* C3: extract_and_fix_json returns a mapping for every raw text.
C3_ReturnsMapping == rstage = "done" => IsDict(repaired)

\* C4: for a raw text with no "{" and no "}", extract_and_fix_json returns
\* {error: "No JSON detected", raw_output: raw}.
C4_NoBraces ==
    (rstage = "done" /\ \A x \in 1..Len(rawText) : rawText[x] \notin {"{", "}"}) =>
        repaired = ErrorPayload(NoJsonDetected, rawText)

\* C5: the mode is Structured exactly when force_template is true or the
\* message contains "template" in any letter case; the same mode selects the
\* system prompt of the context and decides whether the completion text is
\* repaired or wrapped as reply_text.
C5_ModeSelection ==
    \A i \in DOMAIN pc :
        /\ pc[i] # "idle" =>
              conversation[i][1] =
                  [role |-> "system",
                   content |-> IF Structured(req[i]) THEN TemplatePromptText
                               ELSE ConversationalPromptText]
        /\ (Done(i) /\ completion[i].ok /\ ~Structured(req[i])) =>
              response[i] =
                  JObj(<< [k |-> K_reply_text, v |-> JStr(completion[i].text)],
                          [k |-> K_meta,
                           v |-> Meta(TokensUsed(completion[i].usage), ModelId)] >>)
        /\ ( /\ Done(i) /\ completion[i].ok /\ Structured(req[i])
             /\ IsDict(extract_and_fix_json(completion[i].text)) ) =>
              response[i] =
                  DictSet(extract_and_fix_json(completion[i].text), K_meta,
                          Meta(TokensUsed(completion[i].usage), ModelId))

C5_Witness ==
    \E i \in DOMAIN pc :
        /\ Done(i) /\ completion[i].ok
        /\ req[i].force_template = "False"
        /\ Structured(req[i])
        /\ ~Contains(req[i].message, Keyword)
        /\ conversation[i][1].content = TemplatePromptText
        /\ ~HasKey(response[i], K_reply_text)

\* C6 (state part): the context is the system message with the selected
\* prompt, the last min(5, n) history messages in order and unchanged, and
\* the user message with the new text; history [a..g] retains [c..g].
C6_Context ==
    \A i \in DOMAIN pc :
        pc[i] # "idle" =>
            LET h == req[i].messages
                n == Len(h)
                k == IF n < 5 THEN n ELSE 5
                c == conversation[i]
            IN  /\ Len(c) = k + 2
                /\ Len(c) <= 7
                /\ c[1] = [role |-> "system",
                           content |-> IF Structured(req[i]) THEN TemplatePromptText
                                       ELSE ConversationalPromptText]
                /\ \A j \in 1..k : c[1 + j] = h[n - k + j]
                /\ c[k + 2] = [role |-> "user", content |-> req[i].message]
                /\ h = SevenMessages =>
                      SubSeq(c, 2, 6) = <<Letter("c"), Letter("d"), Letter("e"),
                                          Letter("f"), Letter("g")>>

\* C6 (step part): no step of the handler changes the history it was given.
C6_HistoryKept ==
    \A i \in DOMAIN pc : pc[i] # "idle" => req'[i].messages = req[i].messages

\* C6: the context sent to the completion call is [system prompt] + the last
\* min(5, n) history messages + [new user message], at most 7 messages, and
\* the caller's history is never mutated.
C6_ContextAssembly == []C6_Context /\ [][C6_HistoryKept]_vars

C6_Witness ==
    \E i \in DOMAIN pc :
        /\ Done(i)
        /\ req[i].messages = SevenMessages
        /\ Len(conversation[i]) = 7
        /\ conversation[i][2] = Letter("c")

\* C7 as claimed: a raw text with a brace in it that no stage of the repair
\* parses gets {error: "JSON parse failed", raw_output: raw}.
C7_Original ==
    ( /\ rstage = "done"
      /\ \E x \in 1..Len(rawText) : rawText[x] \in {"{", "}"}
      /\ ~JsonLoads(rawText).ok
      /\ ~(SpanExists(rawText)
             /\ JsonLoads(CommasAndSpaceDeleted(Straightened(WidestSpan(rawText)))).ok) )
    => repaired = ErrorPayload(JsonParseFailed, rawText)

\* C7 as amended: when raw is not valid JSON, some "{" of it is followed by a
\* "}", and the normalized widest span is not valid JSON either, the result is
\* {error: "JSON parse failed", raw_output: raw} with raw untouched; when no
\* "{" is followed by a "}" the result is {error: "No JSON detected",
\* raw_output: raw}.
C7_ParseFailed ==
    (rstage = "done" /\ ~JsonLoads(rawText).ok) =>
        /\ ( /\ SpanExists(rawText)
             /\ ~JsonLoads(CommasAndSpaceDeleted(Straightened(WidestSpan(rawText)))).ok )
           => repaired = ErrorPayload(JsonParseFailed, rawText)
        /\ ~SpanExists(rawText) => repaired = ErrorPayload(NoJsonDetected, rawText)

C7_Witness ==
    /\ rstage = "done"
    /\ SpanExists(rawText)
    /\ WidestSpan(rawText) # rawText
    /\ CommasAndSpaceDeleted(Straightened(WidestSpan(rawText))) # WidestSpan(rawText)
    /\ repaired = ErrorPayload(JsonParseFailed, rawText)

\* C8: when raw is valid JSON the result is the value of parsing raw verbatim:
\* curly quotes and comma-closer sequences inside its strings are preserved.
C8_StrictFirst ==
    rstage = "done" =>
        /\ JsonLoads(rawText).ok => repaired = JsonLoads(rawText).val
        /\ rawText = S_CurlyInString =>
              repaired = JObj(<< [k |-> <<"a">>, v |-> JStr(<<LDQ>>)] >>)
        /\ rawText = S_CloserInString =>
              repaired = JObj(<< [k |-> <<"a">>, v |-> JStr(<<",", "}">>)] >>)

C8_Witness ==
    /\ rstage = "done"
    /\ JsonLoads(rawText).ok
    /\ SpanExists(rawText)
    /\ JsonLoads(Normalize(WidestSpan(rawText))).ok
    /\ JsonLoads(Normalize(WidestSpan(rawText))).val # repaired

\* C9 as claimed: when raw is not valid JSON and has a "{" before a "}", the
\* widest span with curly quotes straightened and every trailing comma deleted
\* (nothing else changed) is parsed, and on success its value is returned.
C9_Original ==
    (rstage = "done" /\ ~JsonLoads(rawText).ok /\ SpanExists(rawText)) =>
        LET text == CommasDeleted(Straightened(WidestSpan(rawText)))
        IN  JsonLoads(text).ok => repaired = JsonLoads(text).val

\* C9 as amended: when raw is not valid JSON and has a "{" before a "}", the
\* widest span with curly quotes straightened and every trailing comma deleted
\* together with the whitespace between it and the closer is parsed, and on
\* success its value is returned; the example text yields
\* {"goal": "Run 5k", "templates": []}.
C9_ExtractNormalize ==
    /\ (rstage = "done" /\ ~JsonLoads(rawText).ok /\ SpanExists(rawText)) =>
          LET text == CommasAndSpaceDeleted(Straightened(WidestSpan(rawText)))
          IN  JsonLoads(text).ok => repaired = JsonLoads(text).val
    /\ (rstage = "done" /\ rawText = Example) =>
          repaired = JObj(<< [k |-> <<"g", "o", "a", "l">>,
                              v |-> JStr(<<"R", "u", "n", " ", "5", "k">>)],
                             [k |-> <<"t", "e", "m", "p", "l", "a", "t", "e", "s">>,
                              v |-> JArr(<<>>)] >>)

C9_Witness ==
    /\ rstage = "done"
    /\ ~JsonLoads(rawText).ok
    /\ SpanExists(rawText)
    /\ WidestSpan(rawText) # rawText
    /\ Straightened(WidestSpan(rawText)) # WidestSpan(rawText)
    /\ CommasAndSpaceDeleted(WidestSpan(rawText)) # WidestSpan(rawText)
    /\ IsDict(repaired)
    /\ ~HasKey(repaired, K_error)

\* What the handler returns for request r when its completion call answers c.
ResponseOf(r, c) ==
    IF c.ok THEN TryExcept(TryBody(r, c.text, c.usage)).response
    ELSE ErrorResponse(c.exc)

C10_State ==
    \A i \in DOMAIN pc :
        /\ calls[i] = (IF pc[i] = "idle" THEN 0 ELSE 1)
        /\ Done(i) => response[i] = ResponseOf(req[i], completion[i])

C10_Step ==
    /\ UNCHANGED globals
    /\ \A i \in DOMAIN pc :
          /\ pc[i] # "idle" => req'[i] = req[i] /\ conversation'[i] = conversation[i]
          /\ Done(i) => response'[i] = response[i] /\ completion'[i] = completion[i]

\* C10: under every interleaving each request issues exactly one completion
\* call, its response is a function of its own request and its own completion
\* result, a finished request's response never changes, and no step writes
\* the prompts or the client.
C10_NoInterference == []C10_State /\ [][C10_Step]_vars

C10_Witness ==
    \E i, j \in DOMAIN pc :
        /\ Done(i) /\ pc[j] = "awaiting"
        /\ req[i] # req[j]
        /\ calls[i] = 1 /\ calls[j] = 1

=============================================================================
